---- MODULE Spec2Model ----
(***************************************************************************)
(* A model of the conversational task-management assistant                 *)
(* (PrasannaJung/task_agent): the LangGraph workflow of                    *)
(* server/src/workflow/workflow.ts (analyze_intent, search_tasks,          *)
(* handle_confirmation, chat, tools, process_result), the task tools of    *)
(* tools/dbtools, the task matcher, and the Express boundary of            *)
(* server/server.ts (POST /api/chat and the REST task routes).             *)
(*                                                                         *)
(* Strings are sequences of one-character strings, so that toLowerCase,    *)
(* trim, startsWith, includes and split are computed as the code computes  *)
(* them.  The language model is an opaque capability: its outputs are      *)
(* drawn from bounded sets.                                                *)
(***************************************************************************)
EXTENDS Integers, Sequences, FiniteSets, TLC

\* ------------------------------------------------------------------------
\* Bounds of the model
\* ------------------------------------------------------------------------
MaxTurns == 2
MaxToolCalls == 1
MaxTasks == 6
MaxRest == 1

\* ------------------------------------------------------------------------
\* Strings
\* ------------------------------------------------------------------------
UpperChars == <<"A", "B", "C", "D", "E", "F", "G", "H", "I", "J", "K", "L", "M", "N", "O", "P", "Q", "R", "S", "T", "U", "V", "W", "X", "Y", "Z">>
LowerChars == <<"a", "b", "c", "d", "e", "f", "g", "h", "i", "j", "k", "l", "m", "n", "o", "p", "q", "r", "s", "t", "u", "v", "w", "x", "y", "z">>

ToLowerChar(c) ==
  IF \E i \in 1..Len(UpperChars) : UpperChars[i] = c
  THEN LowerChars[CHOOSE i \in 1..Len(UpperChars) : UpperChars[i] = c]
  ELSE c

ToUpperChar(c) ==
  IF \E i \in 1..Len(LowerChars) : LowerChars[i] = c
  THEN UpperChars[CHOOSE i \in 1..Len(LowerChars) : LowerChars[i] = c]
  ELSE c

toLowerCase(s) == [i \in 1..Len(s) |-> ToLowerChar(s[i])]

toUpperCase(s) == [i \in 1..Len(s) |-> ToUpperChar(s[i])]

IsSpace(c) == c \in {" ", "\t", "\n"}

SetMin(S) == CHOOSE x \in S : \A z \in S : x <= z

SetMax(S) == CHOOSE x \in S : \A z \in S : x >= z

trim(s) ==
  LET keep == {i \in 1..Len(s) : ~IsSpace(s[i])}
  IN IF keep = {} THEN <<>> ELSE SubSeq(s, SetMin(keep), SetMax(keep))

startsWith(s, p) == Len(p) <= Len(s) /\ SubSeq(s, 1, Len(p)) = p

includes(s, p) == \E i \in 0..(Len(s) - Len(p)) : SubSeq(s, i + 1, i + Len(p)) = p

\* s.split(/\s+/): the maximal runs of non-space characters (a leading or
\* trailing separator yields an empty piece, which no caller keeps).
RECURSIVE SplitFrom(_, _, _, _)
SplitFrom(s, i, cur, acc) ==
  IF i > Len(s) THEN Append(acc, cur)
  ELSE IF IsSpace(s[i])
       THEN IF i > 1 /\ IsSpace(s[i - 1])
            THEN SplitFrom(s, i + 1, cur, acc)
            ELSE SplitFrom(s, i + 1, <<>>, Append(acc, cur))
       ELSE SplitFrom(s, i + 1, Append(cur, s[i]), acc)

split(s) == SplitFrom(s, 1, <<>>, <<>>)

LongWord(w) == Len(w) > 2

\* ------------------------------------------------------------------------
\* Texts used as inputs
\* ------------------------------------------------------------------------
T_yes == <<"y", "e", "s">>
T_yeah == <<"y", "e", "a", "h">>
T_yep == <<"y", "e", "p">>
T_sure == <<"s", "u", "r", "e">>
T_ok == <<"o", "k">>
T_okay == <<"o", "k", "a", "y">>
T_confirm == <<"c", "o", "n", "f", "i", "r", "m">>
T_do_it == <<"d", "o", " ", "i", "t">>
T_go_ahead == <<"g", "o", " ", "a", "h", "e", "a", "d">>
T_proceed == <<"p", "r", "o", "c", "e", "e", "d">>
T_y == <<"y">>
T_no == <<"n", "o">>
T_nope == <<"n", "o", "p", "e">>
T_cancel == <<"c", "a", "n", "c", "e", "l">>
T_abort == <<"a", "b", "o", "r", "t">>
T_stop == <<"s", "t", "o", "p">>
T_don_t == <<"d", "o", "n", "'", "t">>
T_dont == <<"d", "o", "n", "t">>
T_n == <<"n">>
T_report == <<"r", "e", "p", "o", "r", "t">>
T_submit_report == <<"S", "u", "b", "m", "i", "t", " ", "r", "e", "p", "o", "r", "t">>
T_team_meeting == <<"T", "e", "a", "m", " ", "m", "e", "e", "t", "i", "n", "g">>
T_doctor_meeting == <<"D", "o", "c", "t", "o", "r", " ", "m", "e", "e", "t", "i", "n", "g">>
T_meeting == <<"m", "e", "e", "t", "i", "n", "g">>
T_groceries == <<"b", "u", "y", " ", "g", "r", "o", "c", "e", "r", "i", "e", "s">>
T_quarterly == <<"q", "u", "a", "r", "t", "e", "r", "l", "y", " ", "n", "u", "m", "b", "e", "r", "s">>
T_zzz == <<"z", "z", "z">>
T_yesterday == <<"y", "e", "s", "t", "e", "r", "d", "a", "y", " ", "i", " ", "s", "e", "n", "t", " ", "i", "t">>
T_nothing == <<"n", "o", "t", "h", "i", "n", "g", " ", "t", "o", " ", "a", "d", "d">>
T_finished == <<"I", " ", "f", "i", "n", "i", "s", "h", "e", "d", " ", "t", "h", "e", " ", "r", "e", "p", "o", "r", "t">>
T_yes_do == <<"Y", "e", "s", " ", "p", "l", "e", "a", "s", "e", " ", "d", "o">>
T_no_thanks == <<"N", "o", " ", "t", "h", "a", "n", "k", "s">>
T_ok_comma == <<"o", "k", ",", " ", "d", "o", " ", "i", "t">>
T_friday == <<"f", "r", "i", "d", "a", "y">>
T_whenever == <<"w", "h", "e", "n", "e", "v", "e", "r">>

\* ------------------------------------------------------------------------
\* Confirmation handler: classification of the reply
\* ------------------------------------------------------------------------
confirmKeywords == {T_yes, T_yeah, T_yep, T_sure, T_ok, T_okay, T_confirm, T_do_it, T_go_ahead, T_proceed, T_y}

cancelKeywords == {T_no, T_nope, T_cancel, T_abort, T_stop, T_don_t, T_dont, T_n}

normalizeReply(raw) == trim(toLowerCase(raw))

\* matchesKeyword with a bare prefix test (no space after the keyword).
matchesKeywordPrefix(content, kw) == content = kw \/ startsWith(content, kw)

matchesKeyword(content, kw) == content = kw \/ startsWith(content, kw \o <<" ">>)

isConfirmed(content) == \E kw \in confirmKeywords : matchesKeyword(content, kw)

isCancelled(content) == \E kw \in cancelKeywords : matchesKeyword(content, kw)

\* ------------------------------------------------------------------------
\* Task store (model/task.js): the documents in creation order
\* ------------------------------------------------------------------------
Users == {"u1", "u2"}

Priorities == {"low", "medium", "high"}

Statuses == {"todo", "in-progress", "completed"}

NewTask(id, owner, title, description, priority, dueDate) ==
  [_id |-> id, userId |-> owner, title |-> trim(title), description |-> trim(description),
   priority |-> IF priority = "" THEN "medium" ELSE priority,
   status |-> "todo", dueDate |-> dueDate, completedAt |-> 0]

InitialTasks ==
  << NewTask(1, "u1", T_team_meeting, <<>>, "", 0),
     NewTask(2, "u1", T_doctor_meeting, <<>>, "", 0),
     NewTask(3, "u1", T_submit_report, T_quarterly, "", 3),
     NewTask(4, "u2", T_submit_report, <<>>, "", 0),
     [NewTask(5, "u1", T_groceries, <<>>, "", 0) EXCEPT !.status = "completed", !.completedAt = 1] >>

Reverse(seq) == [i \in 1..Len(seq) |-> seq[Len(seq) + 1 - i]]

Take(seq, k) == SubSeq(seq, 1, IF k < Len(seq) THEN k ELSE Len(seq))

\* Task.find(filter).sort({createdAt: -1})
FindNewestFirst(store, userId, status) ==
  LET Match(t) == t.userId = userId /\ (status # "" => t.status = status)
  IN Reverse(SelectSeq(store, Match))

\* new Date(): a timestamp later than every completion timestamp stored
newDate(store) == 1 + SetMax({0} \cup {store[i].completedAt : i \in 1..Len(store)})

TaskById(store, id) == CHOOSE t \in {store[i] : i \in 1..Len(store)} : t._id = id

HasTask(store, id) == \E i \in 1..Len(store) : store[i]._id = id

\* The sparse map of field updates; an absent field is the empty value.
NoUpdates == [title |-> <<>>, description |-> <<>>, priority |-> "", status |-> "", dueDate |-> 0]

IsEmptyUpdates(u) == u = NoUpdates

ApplyUpdates(t, u) ==
  [t EXCEPT !.title = IF u.title # <<>> THEN u.title ELSE @,
            !.description = IF u.description # <<>> THEN u.description ELSE @,
            !.priority = IF u.priority # "" THEN u.priority ELSE @,
            !.status = IF u.status # "" THEN u.status ELSE @,
            !.dueDate = IF u.dueDate # 0 THEN u.dueDate ELSE @]

\* ------------------------------------------------------------------------
\* The tools (tools/dbtools).  ctxUser is toolContext.userId as the tool
\* reads it; "" is an absent userId.
\* ------------------------------------------------------------------------
\* filter = {_id: taskId}; if (toolContext.userId) filter.userId = ...
ToolFilter(ctxUser, taskId, t) ==
  t._id = taskId /\ (ctxUser # "" => t.userId = ctxUser)

ToolResult(success, store, hit, found) ==
  [success |-> success, tasks |-> store, hit |-> hit, found |-> found]

\* The zod schema of update_task: priority and status are enums.
UpdateSchemaOk(updates) ==
  /\ updates.priority \in Priorities \cup {""}
  /\ updates.status \in Statuses \cup {""}

updateTaskTool(ctxUser, store, taskId, updates) ==
  LET hits == {i \in 1..Len(store) : ToolFilter(ctxUser, taskId, store[i])}
  IN IF hits = {} THEN ToolResult(FALSE, store, 0, <<>>)
     ELSE LET i == CHOOSE j \in hits : TRUE
          IN ToolResult(TRUE, [store EXCEPT ![i] = ApplyUpdates(@, updates)], taskId, <<>>)

completeTaskTool(ctxUser, store, taskId) ==
  LET hits == {i \in 1..Len(store) : ToolFilter(ctxUser, taskId, store[i])}
  IN IF hits = {} THEN ToolResult(FALSE, store, 0, <<>>)
     ELSE LET i == CHOOSE j \in hits : TRUE
          IN ToolResult(TRUE, [store EXCEPT ![i].status = "completed",
                                            ![i].completedAt = newDate(store)],
                        taskId, <<>>)

\* deleteTaskTool with deleteMany over the user's tasks once the id matches.
deleteTasksOfUser(ctxUser, store, taskId) ==
  LET Keep(t) == ~(ctxUser # "" => t.userId = ctxUser)
      hits == {i \in 1..Len(store) : ToolFilter(ctxUser, taskId, store[i])}
  IN IF hits = {} THEN ToolResult(FALSE, store, 0, <<>>)
     ELSE ToolResult(TRUE, SelectSeq(store, Keep), taskId, <<>>)

deleteTaskTool(ctxUser, store, taskId) ==
  LET Keep(t) == ~ToolFilter(ctxUser, taskId, t)
      hits == {i \in 1..Len(store) : ToolFilter(ctxUser, taskId, store[i])}
  IN IF hits = {} THEN ToolResult(FALSE, store, 0, <<>>)
     ELSE ToolResult(TRUE, SelectSeq(store, Keep), taskId, <<>>)

createTaskTool(ctxUser, store, newId, title, priority) ==
  IF ctxUser = "" \/ trim(title) = <<>> THEN ToolResult(FALSE, store, 0, <<>>)
  ELSE ToolResult(TRUE, Append(store, NewTask(newId, ctxUser, title, <<>>, priority, 0)), newId, <<>>)

listTasksTool(ctxUser, store, status, limit) ==
  IF ctxUser = "" THEN ToolResult(FALSE, store, 0, <<>>)
  ELSE ToolResult(TRUE, store, 0, Take(FindNewestFirst(store, ctxUser, status), limit))

\* ------------------------------------------------------------------------
\* Task matcher (search_tasks)
\* ------------------------------------------------------------------------
WordHits(text, words, points) ==
  LET Hit(w) == includes(text, w)
  IN points * Len(SelectSeq(words, Hit))

\* matchScore without the bonus for tasks that are not completed.
matchScoreNoBonus(task, query) ==
  LET queryLower == toLowerCase(query)
      queryWords == SelectSeq(split(queryLower), LongWord)
      titleLower == toLowerCase(task.title)
      descLower == toLowerCase(task.description)
  IN (IF includes(titleLower, queryLower) THEN 100 ELSE 0)
     + (IF includes(descLower, queryLower) THEN 50 ELSE 0)
     + WordHits(titleLower, queryWords, 20)
     + WordHits(descLower, queryWords, 10)

matchScore(task, query) ==
  LET queryLower == toLowerCase(query)
      queryWords == SelectSeq(split(queryLower), LongWord)
      titleLower == toLowerCase(task.title)
      descLower == toLowerCase(task.description)
  IN (IF includes(titleLower, queryLower) THEN 100 ELSE 0)
     + (IF includes(descLower, queryLower) THEN 50 ELSE 0)
     + WordHits(titleLower, queryWords, 20)
     + WordHits(descLower, queryWords, 10)
     + (IF task.status # "completed" THEN 5 ELSE 0)

Scored(task, score) ==
  [_id |-> task._id, userId |-> task.userId, title |-> task.title, status |-> task.status,
   dueDate |-> task.dueDate, matchScore |-> score]

\* Array.prototype.sort((a, b) => b.matchScore - a.matchScore): stable.
RECURSIVE InsertByScore(_, _)
InsertByScore(sorted, x) ==
  IF sorted = <<>> THEN <<x>>
  ELSE IF Head(sorted).matchScore >= x.matchScore
       THEN <<Head(sorted)>> \o InsertByScore(Tail(sorted), x)
       ELSE <<x>> \o sorted

RECURSIVE SortByScore(_)
SortByScore(seq) ==
  IF seq = <<>> THEN <<>>
  ELSE InsertByScore(SortByScore(SubSeq(seq, 1, Len(seq) - 1)), seq[Len(seq)])

\* tasks and relevantTasks are bound by a quantifier so that each is
\* computed once.
searchTasksTool(ctxUser, store, query, status, limit) ==
  IF ctxUser = "" THEN ToolResult(FALSE, store, 0, <<>>)
  ELSE LET Recent(tasks) == [i \in 1..Len(Take(tasks, limit)) |-> Scored(tasks[i], 1)]
           Relevant(t) == t.matchScore > 0
           ScoredTasks(tasks) ==
             SelectSeq([i \in 1..Len(tasks) |-> Scored(tasks[i], matchScore(tasks[i], query))],
                       Relevant)
           Ranked(relevantTasks) == Take(SortByScore(relevantTasks), limit)
           Found(tasks) ==
             IF trim(query) = <<>> THEN Recent(tasks)
             ELSE CHOOSE found \in {Ranked(relevantTasks) :
                                      relevantTasks \in {ScoredTasks(tasks)}} : TRUE
       IN ToolResult(TRUE, store, 0,
            CHOOSE found \in {Found(tasks) :
                                tasks \in {FindNewestFirst(store, ctxUser, status)}} : TRUE)

\* validate_task that never reports a missing field.
validateTaskToolAcceptsAll(title) == [canCreate |-> TRUE, title |-> title, missingFields |-> <<>>]

\* validate_task: required fields = {title}
validateTaskTool(title) == [canCreate |-> title # <<>>, title |-> title,
                            missingFields |-> IF title # <<>> THEN <<>> ELSE <<"title">>]


\* ------------------------------------------------------------------------
\* Turn context (state/AgentState) and its parts
\* ------------------------------------------------------------------------
NoInfo == [title |-> <<>>, description |-> <<>>, priority |-> "", dueDate |-> <<>>,
           status |-> "", searchQuery |-> <<>>]

NoIntent == [present |-> FALSE, action |-> "", confidence |-> 0, reason |-> "", info |-> NoInfo]

MakeIntent(action, confidence, reason, info) ==
  [present |-> TRUE, action |-> action, confidence |-> confidence, reason |-> reason, info |-> info]

NoOperation == [present |-> FALSE, action |-> "", taskId |-> 0, updates |-> NoUpdates]

\* MakeOperation without the task id.
MakeOperationNoTask(action, taskId, updates) ==
  [present |-> TRUE, action |-> action, taskId |-> 0, updates |-> updates]

MakeOperation(action, taskId, updates) ==
  [present |-> TRUE, action |-> action, taskId |-> taskId, updates |-> updates]

NoPending == [present |-> FALSE, title |-> <<>>, missingFields |-> <<>>]

FreshContext(pending) ==
  [userIntent |-> NoIntent, pendingTask |-> pending, foundTasks |-> <<>>, selectedTaskId |-> 0,
   awaitingConfirmation |-> FALSE, operationDetails |-> NoOperation]

HumanMessage(text) == [role |-> "human", text |-> text, kind |-> "text", data |-> NoPending]

AIMessage(kind) == [role |-> "ai", text |-> <<>>, kind |-> kind, data |-> NoPending]

ToolMessage(kind, data) == [role |-> "tool", text |-> <<>>, kind |-> kind, data |-> data]

Last(seq) == seq[Len(seq)]

\* ------------------------------------------------------------------------
\* Routing functions (workflow.ts)
\* ------------------------------------------------------------------------
\* routeAfterIntent with the action switch placed before the
\* awaitingConfirmation test.
routeAfterIntentByAction(ctx) ==
  IF ctx.userIntent.present
     /\ ctx.userIntent.action \in {"create", "update", "delete", "complete", "list"}
  THEN "search_tasks"
  ELSE IF ctx.awaitingConfirmation THEN "handle_confirmation" ELSE "chat"

routeAfterIntent(ctx) ==
  IF ctx.awaitingConfirmation THEN "handle_confirmation"
  ELSE IF ~ctx.userIntent.present THEN "chat"
  ELSE IF ctx.userIntent.action \in {"create", "update", "delete", "complete", "list"}
       THEN "search_tasks"
       ELSE "chat"

\* HasSimilarTask without the status test.
HasSimilarTaskAnyStatus(foundTasks) ==
  \E i \in 1..Len(foundTasks) : foundTasks[i].matchScore > 80

HasSimilarTask(foundTasks) ==
  \E i \in 1..Len(foundTasks) :
     foundTasks[i].matchScore > 80 /\ foundTasks[i].status # "completed"

\* routeAfterSearch sending every non-empty result of update, delete and
\* complete to confirmation.
routeAfterSearchAnyMatch(ctx) ==
  IF ~ctx.userIntent.present THEN "chat"
  ELSE IF ctx.userIntent.action = "create"
       THEN IF HasSimilarTask(ctx.foundTasks) THEN "handle_confirmation" ELSE "chat"
  ELSE IF ctx.userIntent.action \in {"update", "delete", "complete"}
       THEN IF Len(ctx.foundTasks) >= 1 THEN "handle_confirmation" ELSE "chat"
  ELSE "chat"

routeAfterSearch(ctx) ==
  IF ~ctx.userIntent.present THEN "chat"
  ELSE IF ctx.userIntent.action = "create"
       THEN IF HasSimilarTask(ctx.foundTasks) THEN "handle_confirmation" ELSE "chat"
  ELSE IF ctx.userIntent.action \in {"update", "delete", "complete"}
       THEN IF Len(ctx.foundTasks) = 1 THEN "handle_confirmation" ELSE "chat"
  ELSE "chat"

routeAfterConfirmation(ctx) == "chat"

\* ------------------------------------------------------------------------
\* search_tasks node (nodes/taskSearch)
\* ------------------------------------------------------------------------
\* chrono.parseDate(text, reference): 0 is null (no date recognised).
T_week_later == <<"a", " ", "w", "e", "e", "k", " ", "l", "a", "t", "e", "r">>

chronoParseDate(text, reference) ==
  IF toLowerCase(text) = T_friday THEN 5
  ELSE IF toLowerCase(text) = T_week_later THEN reference + 7
  ELSE 0

relativeKeywords ==
  { <<"f", "u", "r", "t", "h", "e", "r">>, <<"l", "a", "t", "e", "r">>, <<"m", "o", "r", "e">>,
    <<"e", "x", "t", "e", "n", "d">>, <<"p", "o", "s", "t", "p", "o", "n", "e">>,
    <<"d", "e", "l", "a", "y">> }

\* searchQuery || title || ""
SearchQueryOf(intent) ==
  IF intent.action = "create" THEN intent.info.title
  ELSE IF intent.info.searchQuery # <<>> THEN intent.info.searchQuery ELSE intent.info.title

ParsedDueDate(intent, matchedTask) ==
  LET dateStr == intent.info.dueDate
      fromNow == IF dateStr # <<>> THEN chronoParseDate(dateStr, 1) ELSE 0
      relative == /\ intent.action = "update" /\ dateStr # <<>> /\ matchedTask.dueDate # 0
                  /\ \E kw \in relativeKeywords : includes(toLowerCase(dateStr), kw)
      fromDue == IF relative THEN chronoParseDate(toLowerCase(dateStr), matchedTask.dueDate) ELSE 0
  IN IF fromDue # 0 THEN fromDue ELSE fromNow

\* ProposedUpdates without the priority entry.
ProposedUpdatesNoPriority(intent, matchedTask) ==
  [title |-> intent.info.title, description |-> intent.info.description,
   priority |-> "", status |-> intent.info.status,
   dueDate |-> ParsedDueDate(intent, matchedTask)]

ProposedUpdates(intent, matchedTask) ==
  [title |-> intent.info.title, description |-> intent.info.description,
   priority |-> intent.info.priority, status |-> intent.info.status,
   dueDate |-> ParsedDueDate(intent, matchedTask)]

\* The part of searchTasks after a successful search_tasks call.
AfterSearch(ctx, foundTasks) ==
  LET intent == ctx.userIntent
  IN IF Len(foundTasks) = 1 /\ intent.action \in {"update", "delete", "complete"}
     THEN LET matchedTask == foundTasks[1]
              updates == ProposedUpdates(intent, matchedTask)
          IN IF intent.action = "update" /\ IsEmptyUpdates(updates)
             THEN [ctx EXCEPT !.foundTasks = foundTasks]
             ELSE [ctx EXCEPT !.foundTasks = foundTasks,
                              !.selectedTaskId = matchedTask._id,
                              !.awaitingConfirmation = TRUE,
                              !.operationDetails = MakeOperation(intent.action, matchedTask._id, updates)]
     ELSE IF intent.action = "create" /\ Len(foundTasks) > 0 /\ foundTasks[1].matchScore > 80
     THEN [ctx EXCEPT !.foundTasks = foundTasks,
                      !.selectedTaskId = foundTasks[1]._id,
                      !.awaitingConfirmation = TRUE,
                      !.operationDetails = MakeOperation("update", foundTasks[1]._id, NoUpdates)]
     ELSE [ctx EXCEPT !.foundTasks = foundTasks]

\* The search_tasks call the node makes; ok is FALSE when the call fails
\* (no userId in the tool context) or throws (a status the schema rejects).
SearchCall(ctx, ctxUser, store) ==
  LET intent == ctx.userIntent
  IN IF intent.action = "list"
     THEN IF intent.info.status \in Statuses \cup {""}
          THEN searchTasksTool(ctxUser, store, <<>>, intent.info.status, 10)
          ELSE ToolResult(FALSE, store, 0, <<>>)
     ELSE searchTasksTool(ctxUser, store, SearchQueryOf(intent), "", 5)

searchTasks(ctx, ctxUser, store) ==
  LET intent == ctx.userIntent
  IN IF ~intent.present \/ intent.action = "chat" THEN ctx
     ELSE LET Updated(result) ==
                IF ~result.success THEN ctx
                ELSE IF intent.action = "list" THEN [ctx EXCEPT !.foundTasks = result.found]
                ELSE AfterSearch(ctx, result.found)
          IN CHOOSE after \in {Updated(result) : result \in {SearchCall(ctx, ctxUser, store)}} : TRUE


\* ------------------------------------------------------------------------
\* handle_confirmation node (nodes/confirmationHandler.ts)
\* ------------------------------------------------------------------------
NoStoreOp == [tool |-> "", taskId |-> 0, ctxUser |-> "", success |-> FALSE, hit |-> 0,
              hitOwner |-> "", owner |-> "", changed |-> 0, found |-> <<>>]

\* A tool's execution as the properties read it: the task filter it used,
\* the owner of the task id before the call, what it returned and changed.
StoreOp(tool, taskId, ctxUser, store, result) ==
  [tool |-> tool, taskId |-> taskId, ctxUser |-> ctxUser, success |-> result.success,
   hit |-> result.hit,
   hitOwner |-> IF result.hit # 0 /\ HasTask(store, result.hit)
                THEN TaskById(store, result.hit).userId
                ELSE IF result.hit # 0 THEN ctxUser ELSE "",
   owner |-> IF HasTask(store, taskId) THEN TaskById(store, taskId).userId ELSE "",
   changed |-> Cardinality({i \in 1..Len(store) :
                              \/ ~HasTask(result.tasks, store[i]._id)
                              \/ TaskById(result.tasks, store[i]._id) # store[i]}),
   found |-> result.found]

\* ClearConfirmation that leaves selectedTaskId in place.
ClearConfirmationKeepSelected(ctx) ==
  [ctx EXCEPT !.awaitingConfirmation = FALSE, !.operationDetails = NoOperation]

ClearConfirmation(ctx) ==
  [ctx EXCEPT !.awaitingConfirmation = FALSE, !.operationDetails = NoOperation,
              !.selectedTaskId = 0]

Handled(ctx, messages, store, op, threw) ==
  [ctx |-> ctx, messages |-> messages, tasks |-> store, op |-> op, threw |-> threw]

\* The tool the confirmed operation dispatches to (lines 31-49).
ConfirmedCall(operationDetails, selectedTaskId, ctxUser, store) ==
  IF operationDetails.action = "update"
  THEN updateTaskTool(ctxUser, store, selectedTaskId, operationDetails.updates)
  ELSE IF operationDetails.action = "complete"
  THEN completeTaskTool(ctxUser, store, selectedTaskId)
  ELSE deleteTaskTool(ctxUser, store, selectedTaskId)

ConfirmedToolName(action) ==
  IF action = "update" THEN "update_task"
  ELSE IF action = "complete" THEN "complete_task" ELSE "delete_task"

\* ExecuteConfirmed emptying foundTasks on every outcome.
ExecuteConfirmedEmptiesFound(ctx, messages, ctxUser, store) ==
  LET op == ctx.operationDetails
      cleared == [ClearConfirmation(ctx) EXCEPT !.foundTasks = <<>>]
  IN IF op.action \notin {"update", "complete", "delete"}
     THEN Handled(cleared, messages, store, NoStoreOp, FALSE)
     ELSE IF op.action = "update" /\ ~UpdateSchemaOk(op.updates)
     THEN Handled(cleared, Append(messages, AIMessage("confirm-error")), store, NoStoreOp, TRUE)
     ELSE LET result == ConfirmedCall(op, ctx.selectedTaskId, ctxUser, store)
              done == StoreOp(ConfirmedToolName(op.action), ctx.selectedTaskId, ctxUser, store, result)
          IN Handled(cleared,
                     Append(messages, AIMessage(IF result.success THEN "confirm-ok"
                                                ELSE "confirm-failed")),
                     result.tasks, done, FALSE)

ExecuteConfirmed(ctx, messages, ctxUser, store) ==
  LET op == ctx.operationDetails
  IN IF op.action \notin {"update", "complete", "delete"}
     THEN Handled(ClearConfirmation(ctx), messages, store, NoStoreOp, FALSE)
     ELSE IF op.action = "update" /\ ~UpdateSchemaOk(op.updates)
     THEN \* updateTaskTool.invoke rejects the input: the catch branch
          Handled(ClearConfirmation(ctx), Append(messages, AIMessage("confirm-error")),
                  store, NoStoreOp, TRUE)
     ELSE LET Done(result) ==
                StoreOp(ConfirmedToolName(op.action), ctx.selectedTaskId, ctxUser, store, result)
              Outcome(result) ==
                IF result.success
                THEN Handled([ClearConfirmation(ctx) EXCEPT !.foundTasks = <<>>],
                             Append(messages, AIMessage("confirm-ok")), result.tasks,
                             Done(result), FALSE)
                ELSE Handled(ClearConfirmation(ctx),
                             Append(messages, AIMessage("confirm-failed")), result.tasks,
                             Done(result), FALSE)
          IN CHOOSE h \in {Outcome(result) :
                             result \in {ConfirmedCall(op, ctx.selectedTaskId, ctxUser, store)}} : TRUE

\* handleConfirmation clearing the confirmation for every reply that does
\* not execute.
handleConfirmationClearsUnresolved(ctx, messages, ctxUser, store) ==
  LET lastMessage == Last(messages)
      content == normalizeReply(lastMessage.text)
  IN IF lastMessage.role # "human" THEN Handled(ctx, messages, store, NoStoreOp, FALSE)
     ELSE IF isConfirmed(content) /\ ctx.operationDetails.present /\ ctx.selectedTaskId # 0
     THEN ExecuteConfirmed(ctx, messages, ctxUser, store)
     ELSE Handled([ClearConfirmation(ctx) EXCEPT !.foundTasks = <<>>], messages, store,
                  NoStoreOp, FALSE)

handleConfirmation(ctx, messages, ctxUser, store) ==
  LET lastMessage == Last(messages)
      Reply(content) ==
        IF isConfirmed(content) /\ ctx.operationDetails.present /\ ctx.selectedTaskId # 0
        THEN ExecuteConfirmed(ctx, messages, ctxUser, store)
        ELSE IF isCancelled(content)
        THEN Handled([ClearConfirmation(ctx) EXCEPT !.foundTasks = <<>>], messages, store,
                     NoStoreOp, FALSE)
        ELSE Handled(ctx, messages, store, NoStoreOp, FALSE)
  IN IF lastMessage.role # "human" THEN Handled(ctx, messages, store, NoStoreOp, FALSE)
     ELSE CHOOSE h \in {Reply(content) : content \in {normalizeReply(lastMessage.text)}} : TRUE

\* ------------------------------------------------------------------------
\* process_result node (workflow.ts processToolResult)
\* ------------------------------------------------------------------------
\* processToolResult clearing the operation state on every JSON result
\* that is not a validation, whatever its success field.
processToolResultIgnoresSuccess(ctx, messages) ==
  LET lastMessage == Last(messages)
  IN IF lastMessage.role # "tool" THEN ctx
     ELSE IF lastMessage.kind = "cannot-create"
     THEN [ctx EXCEPT !.pendingTask = [present |-> TRUE, title |-> lastMessage.data.title,
                                       missingFields |-> lastMessage.data.missingFields]]
     ELSE IF lastMessage.kind = "can-create" THEN [ctx EXCEPT !.pendingTask = NoPending]
     ELSE IF lastMessage.kind \in {"success", "failure"}
     THEN [ctx EXCEPT !.pendingTask = NoPending, !.awaitingConfirmation = FALSE,
                      !.operationDetails = NoOperation, !.selectedTaskId = 0,
                      !.foundTasks = <<>>]
     ELSE ctx

processToolResult(ctx, messages) ==
  LET lastMessage == Last(messages)
  IN IF lastMessage.role # "tool" THEN ctx
     ELSE IF lastMessage.kind = "cannot-create"
     THEN [ctx EXCEPT !.pendingTask = [present |-> TRUE, title |-> lastMessage.data.title,
                                       missingFields |-> lastMessage.data.missingFields]]
     ELSE IF lastMessage.kind = "can-create" THEN [ctx EXCEPT !.pendingTask = NoPending]
     ELSE IF lastMessage.kind = "success"
     THEN [ctx EXCEPT !.pendingTask = NoPending, !.awaitingConfirmation = FALSE,
                      !.operationDetails = NoOperation, !.selectedTaskId = 0,
                      !.foundTasks = <<>>]
     ELSE ctx

\* ------------------------------------------------------------------------
\* tools node (ToolNode over the seven tools): one tool call
\* ------------------------------------------------------------------------
\* limit is the search_tasks argument; the schema's default is 5.
ToolCall(name, taskId, text, updates) ==
  [name |-> name, taskId |-> taskId, text |-> text, updates |-> updates, limit |-> 5]

SearchRequest(query, status, limit) ==
  [name |-> "search_tasks", taskId |-> 0, text |-> query,
   updates |-> [NoUpdates EXCEPT !.status = status], limit |-> limit]

MutatingTools == {"create_task", "update_task", "complete_task", "delete_task"}

\* What the call does to the store: a ToolResult; threw when the tool's
\* schema rejects the arguments (the node answers with an error text).
CallThrows(call) == call.name = "update_task" /\ ~UpdateSchemaOk(call.updates)

RunTool(call, ctxUser, store, newId) ==
  IF call.name = "create_task" THEN createTaskTool(ctxUser, store, newId, call.text, call.updates.priority)
  ELSE IF call.name = "update_task" THEN updateTaskTool(ctxUser, store, call.taskId, call.updates)
  ELSE IF call.name = "complete_task" THEN completeTaskTool(ctxUser, store, call.taskId)
  ELSE IF call.name = "delete_task" THEN deleteTaskTool(ctxUser, store, call.taskId)
  ELSE IF call.name = "list_tasks" THEN listTasksTool(ctxUser, store, call.updates.status, 10)
  ELSE IF call.name = "search_tasks"
       THEN searchTasksTool(ctxUser, store, call.text, call.updates.status, call.limit)
  ELSE ToolResult(FALSE, store, 0, <<>>)

\* The ToolMessage the call is answered with (JSON of the tool's result).
ToolAnswer(call, result) ==
  IF CallThrows(call) THEN ToolMessage("error-text", NoPending)
  ELSE IF call.name = "validate_task"
  THEN LET v == validateTaskTool(call.text)
       IN IF v.canCreate THEN ToolMessage("can-create", NoPending)
          ELSE ToolMessage("cannot-create",
                 [present |-> TRUE, title |-> v.title, missingFields |-> v.missingFields])
  ELSE IF result.success THEN ToolMessage("success", NoPending)
  ELSE ToolMessage("failure", NoPending)


\* ------------------------------------------------------------------------
\* Inputs: user messages, language-model outputs
\* ------------------------------------------------------------------------
UserTexts == {T_yes_do, T_no_thanks, T_finished}

Info(title, searchQuery, priority, status, dueDate) ==
  [title |-> title, description |-> <<>>, priority |-> priority, dueDate |-> dueDate,
   status |-> status, searchQuery |-> searchQuery]

\* What the model answers to the intent prompt: a JSON object, text without
\* JSON, or a failed call.
IntentJson(action, info) == [kind |-> "json", action |-> action, info |-> info]

IntentOutputs ==
  { IntentJson("chat", NoInfo),
    IntentJson("list", NoInfo),
    IntentJson("list", Info(<<>>, <<>>, "", "done", <<>>)),
    IntentJson("create", Info(T_report, <<>>, "", "", <<>>)),
    IntentJson("create", Info(T_groceries, <<>>, "", "", <<>>)),
    IntentJson("create", Info(T_zzz, <<>>, "", "", <<>>)),
    IntentJson("complete", Info(<<>>, T_report, "", "", <<>>)),
    IntentJson("delete", Info(<<>>, T_meeting, "", "", <<>>)),
    IntentJson("delete", Info(<<>>, T_zzz, "", "", <<>>)),
    IntentJson("delete", Info(<<>>, T_report, "", "", <<>>)),
    IntentJson("update", Info(<<>>, T_report, "high", "", <<>>)),
    IntentJson("update", Info(<<>>, T_report, "", "", <<>>)),
    IntentJson("update", Info(<<>>, T_report, "", "", T_whenever)),
    IntentJson("update", Info(<<>>, T_report, "", "", T_week_later)),
    IntentJson("update", Info(<<>>, T_report, "urgent", "", <<>>)),
    IntentJson("update", Info(<<>>, T_meeting, "", "", T_friday)),
    IntentJson("remind", NoInfo),
    [kind |-> "nojson", action |-> "", info |-> NoInfo],
    [kind |-> "badjson", action |-> "", info |-> NoInfo],
    [kind |-> "throws", action |-> "", info |-> NoInfo] }

ConcIntentOutputs ==
  { IntentJson("chat", NoInfo),
    IntentJson("complete", Info(<<>>, T_report, "", "", <<>>)) }

Updates(priority, status) == [NoUpdates EXCEPT !.priority = priority, !.status = status]

ToolCallChoices ==
  { ToolCall("create_task", 0, T_zzz, NoUpdates),
    ToolCall("update_task", 3, <<>>, Updates("", "in-progress")),
    ToolCall("update_task", 4, <<>>, Updates("high", "")),
    ToolCall("update_task", 3, <<>>, Updates("urgent", "")),
    ToolCall("complete_task", 3, <<>>, NoUpdates),
    ToolCall("delete_task", 1, <<>>, NoUpdates),
    ToolCall("delete_task", 4, <<>>, NoUpdates),
    ToolCall("search_tasks", 0, T_report, NoUpdates),
    ToolCall("list_tasks", 0, <<>>, NoUpdates),
    ToolCall("validate_task", 0, <<>>, NoUpdates),
    ToolCall("validate_task", 0, T_zzz, NoUpdates) }

ConcToolCallChoices ==
  { ToolCall("update_task", 4, <<>>, Updates("high", "")),
    ToolCall("complete_task", 4, <<>>, NoUpdates),
    ToolCall("delete_task", 4, <<>>, NoUpdates),
    ToolCall("search_tasks", 0, T_report, NoUpdates) }

\* ------------------------------------------------------------------------
\* State
\* ------------------------------------------------------------------------
VARIABLES
  tasks,        \* the task collection, in creation order
  created,      \* number of task ids handed out
  sessions,     \* the persisted chat session of each user
  toolContext,  \* dbtools' module-level toolContext.userId ("" when absent)
  req,          \* the chat requests in flight
  turns,        \* chat requests started
  rest          \* the last REST task request and its answer

vars == <<tasks, created, sessions, toolContext, req, turns, rest>>

Reqs == {"r1", "r2"}

\* Number of documents that differ between two states of the collection.
Changed(before, after) ==
  Cardinality({id \in 1..MaxTasks + 1 :
                 \/ HasTask(before, id) # HasTask(after, id)
                 \/ /\ HasTask(before, id) /\ HasTask(after, id)
                    /\ TaskById(before, id) # TaskById(after, id)})

\* The selected task as the confirmation handler finds and leaves it.
NoTarget == [owner |-> "", before |-> "", after |-> ""]

StatusOf(store, id) == IF HasTask(store, id) THEN TaskById(store, id).status ELSE ""

Target(id, before, after) ==
  [owner |-> IF HasTask(before, id) THEN TaskById(before, id).userId ELSE "",
   before |-> StatusOf(before, id), after |-> StatusOf(after, id)]

NoCall == ToolCall("", 0, <<>>, NoUpdates)

\* executed is history, read by the properties only: the texts of the
\* session's turns in which the handler executed a confirmed operation.
EmptySession == [messages |-> <<>>, pendingTask |-> NoPending, executed |-> {}]

NoSearch == [ran |-> FALSE, success |-> FALSE, count |-> 0]

NoReply == [handled |-> FALSE, confirmed |-> FALSE, cancelled |-> FALSE, content |-> <<>>]

Idle ==
  [pc |-> "idle", user |-> "", text |-> <<>>, messages |-> <<>>,
   ctx |-> FreshContext(NoPending), calls |-> <<>>,
   \* history of the turn, read by the properties only
   startCtx |-> FreshContext(NoPending), trace |-> <<>>, routedCtx |-> FreshContext(NoPending),
   search |-> NoSearch, lastSearch |-> <<>>, reply |-> NoReply, handlerOps |-> <<>>, handlerThrew |-> FALSE,
   handlerSaid |-> 0, startSession |-> EmptySession, lastCall |-> NoCall,
   intentKind |-> "",
   target |-> NoTarget, toolCallsRun |-> 0, mutatingCallsRun |-> 0, mutations |-> 0,
   lastOp |-> NoStoreOp]

NoRest == [route |-> "", user |-> "", taskId |-> 0, found |-> FALSE, owner |-> "", changed |-> FALSE, used |-> 0]

InitStore ==
  /\ tasks = InitialTasks
  /\ created = Len(InitialTasks)
  /\ sessions = [u \in Users |-> EmptySession]
  /\ rest = NoRest

Init ==
  /\ InitStore
  /\ toolContext = ""
  /\ req = [r \in Reqs |-> Idle]
  /\ turns = 0

\* ------------------------------------------------------------------------
\* POST /api/chat (server.ts): the boundary around the workflow
\* ------------------------------------------------------------------------
\* chatSession.messages.map(m => role === "user" ? HumanMessage : AIMessage)
LoadMessages(saved) ==
  [i \in 1..Len(saved) |-> IF saved[i].role = "user" THEN HumanMessage(saved[i].text)
                           ELSE AIMessage(saved[i].kind)]

Begin(user, text, messages, ctx) ==
  [Idle EXCEPT !.pc = "analyze_intent", !.user = user, !.text = text,
               !.messages = messages, !.ctx = ctx, !.startCtx = ctx]

\* Lines 128-183: load the session, push the user message, set the tool
\* context, invoke the workflow.  Of the turn context the session schema
\* (model/chatSession) holds pendingTask only: userIntent, foundTasks,
\* selectedTaskId, awaitingConfirmation and operationDetails are no schema
\* paths, so a loaded session has none of them.
ChatStart(r, u, text) ==
  /\ req[r].pc = "idle"
  /\ turns < MaxTurns
  /\ turns' = turns + 1
  /\ toolContext' = u
  /\ req' = [req EXCEPT ![r] =
               [Begin(u, text, Append(LoadMessages(sessions[u].messages), HumanMessage(text)),
                      FreshContext(sessions[u].pendingTask))
                  EXCEPT !.startSession = sessions[u]]]
  /\ UNCHANGED <<tasks, created, sessions, rest>>

\* Lines 185-246: clear the tool context, append the response, save.
SavedSession(session, r) ==
  [messages |-> session.messages \o
                  << [role |-> "user", text |-> req[r].text, kind |-> "text"],
                     [role |-> "assistant", text |-> <<>>,
                      kind |-> IF Last(req[r].messages).role = "ai"
                               THEN Last(req[r].messages).kind ELSE "empty"] >>,
   pendingTask |-> req[r].ctx.pendingTask,
   executed |-> session.executed \cup
                  (IF \E i \in 1..Len(req[r].handlerOps) : req[r].handlerOps[i].success
                   THEN {req[r].text} ELSE {})]

ChatRespond(r) ==
  /\ req[r].pc = "respond"
  /\ toolContext' = ""
  /\ sessions' = [sessions EXCEPT ![req[r].user] = SavedSession(@, r)]
  /\ req' = [req EXCEPT ![r] = Idle]
  /\ UNCHANGED <<tasks, created, turns, rest>>

\* The catch block saving the session as the try block does.
ChatErrorSaves(r) ==
  /\ req[r].pc = "failed"
  /\ toolContext' = ""
  /\ sessions' = [sessions EXCEPT ![req[r].user] = SavedSession(@, r)]
  /\ req' = [req EXCEPT ![r] = Idle]
  /\ UNCHANGED <<tasks, created, turns, rest>>

\* Lines 247-251: the catch block.
ChatError(r) ==
  /\ req[r].pc = "failed"
  /\ toolContext' = ""
  /\ req' = [req EXCEPT ![r] = Idle]
  /\ UNCHANGED <<tasks, created, sessions, turns, rest>>

\* ------------------------------------------------------------------------
\* The workflow's nodes as steps of a request
\* ------------------------------------------------------------------------
Step(r, node, next) == [req[r] EXCEPT !.pc = next, !.trace = Append(@, node)]

\* analyzeIntent without the catch block's intent: an error leaves the
\* context as it was.
analyzeIntentNoFallback(ctx, messages, out) ==
  IF Last(messages).role # "human" THEN ctx
  ELSE IF out.kind = "json"
  THEN [ctx EXCEPT !.userIntent = MakeIntent(out.action, 50, "No reason provided", out.info)]
  ELSE IF out.kind = "nojson"
  THEN [ctx EXCEPT !.userIntent = MakeIntent("chat", 50, "Could not determine intent", NoInfo)]
  ELSE ctx

\* analyzeIntent (nodes/intentAnalyzer.ts).  The model's output is a JSON
\* object (kind json), text without one (nojson), text whose JSON does not
\* parse (badjson), or the call throws; the last two reach the catch block.
analyzeIntent(ctx, messages, out) ==
  IF Last(messages).role # "human" THEN ctx
  ELSE IF out.kind = "json"
  THEN [ctx EXCEPT !.userIntent = MakeIntent(out.action, 50, "No reason provided", out.info)]
  ELSE IF out.kind = "nojson"
  THEN [ctx EXCEPT !.userIntent = MakeIntent("chat", 50, "Could not determine intent", NoInfo)]
  ELSE [ctx EXCEPT !.userIntent = MakeIntent("chat", 50, "Error during intent analysis", NoInfo)]

AnalyzeIntent(r, out) ==
  /\ req[r].pc = "analyze_intent"
  /\ \E ctx \in {analyzeIntent(req[r].ctx, req[r].messages, out)} :
       req' = [req EXCEPT ![r] =
                  [Step(r, "analyze_intent", routeAfterIntent(ctx)) EXCEPT
                     !.ctx = ctx, !.routedCtx = ctx,
                     !.intentKind = IF Last(req[r].messages).role = "human"
                                    THEN out.kind ELSE ""]]
  /\ UNCHANGED <<tasks, created, sessions, toolContext, turns, rest>>

SearchTasks(r) ==
  /\ req[r].pc = "search_tasks"
  /\ \E ctx \in {searchTasks(req[r].ctx, toolContext, tasks)},
        called \in {req[r].ctx.userIntent.present /\ req[r].ctx.userIntent.action # "chat"},
        result \in {SearchCall(req[r].ctx, toolContext, tasks)} :
       req' = [req EXCEPT ![r] =
                  [Step(r, "search_tasks", routeAfterSearch(ctx)) EXCEPT
                     !.ctx = ctx, !.routedCtx = ctx,
                     !.search = [ran |-> called, success |-> called /\ result.success,
                                 count |-> IF called THEN Len(result.found) ELSE 0],
                     !.lastSearch = IF called THEN result.found ELSE <<>>,
                     !.lastOp = IF called
                                THEN StoreOp("search_tasks", 0, toolContext, tasks, result)
                                ELSE @]]
  /\ UNCHANGED <<tasks, created, sessions, toolContext, turns, rest>>

HandleConfirmation(r) ==
  /\ req[r].pc = "handle_confirmation"
  /\ \E h \in {handleConfirmation(req[r].ctx, req[r].messages, toolContext, tasks)},
        content \in {normalizeReply(Last(req[r].messages).text)} :
     LET ran == h.op.tool # ""
     IN /\ tasks' = h.tasks
        /\ req' = [req EXCEPT ![r] =
                     [Step(r, "handle_confirmation", routeAfterConfirmation(h.ctx)) EXCEPT
                        !.ctx = h.ctx, !.messages = h.messages,
                        !.reply = [handled |-> TRUE, confirmed |-> isConfirmed(content),
                                   cancelled |-> isCancelled(content), content |-> content],
                        !.handlerOps = IF ran THEN Append(@, h.op) ELSE @,
                        !.handlerThrew = h.threw,
                        !.handlerSaid = Len(h.messages) - Len(req[r].messages),
                        !.target = Target(req[r].ctx.selectedTaskId, tasks, h.tasks),
                        !.mutations = @ + Changed(tasks, h.tasks),
                        !.lastOp = IF ran THEN h.op ELSE @]]
  /\ UNCHANGED <<created, sessions, toolContext, turns, rest>>

\* chatAgent and shouldCallTool: a plain response ends the turn
ChatReplies(r) ==
  /\ req[r].pc = "chat"
  /\ req' = [req EXCEPT ![r] =
               [Step(r, "chat", "respond") EXCEPT !.messages = Append(@, AIMessage("reply"))]]
  /\ UNCHANGED <<tasks, created, sessions, toolContext, turns, rest>>

\* chatAgent and shouldCallTool: a response with tool calls goes to tools
ChatCallsTools(r, calls) ==
  /\ req[r].pc = "chat"
  /\ req[r].toolCallsRun + Len(calls) <= MaxToolCalls
  /\ \A i \in 1..Len(calls) : calls[i].name = "create_task" => created < MaxTasks
  /\ req' = [req EXCEPT ![r] =
               [Step(r, "chat", "tools") EXCEPT !.messages = Append(@, AIMessage("tool-calls")),
                                                !.calls = calls]]
  /\ UNCHANGED <<tasks, created, sessions, toolContext, turns, rest>>

\* chatAgent: the model call throws, and the workflow with it
ChatThrows(r) ==
  /\ req[r].pc = "chat"
  /\ req' = [req EXCEPT ![r] = Step(r, "chat", "failed")]
  /\ UNCHANGED <<tasks, created, sessions, toolContext, turns, rest>>

\* tools node: the next tool call of the last AI message
ToolStep(r) ==
  /\ req[r].pc = "tools"
  /\ req[r].calls # <<>>
  /\ \E call \in {Head(req[r].calls)} :
     \E result \in {IF ~CallThrows(call) /\ call.name # "validate_task"
                     THEN RunTool(call, toolContext, tasks, created + 1)
                     ELSE ToolResult(FALSE, tasks, 0, <<>>)} :
     LET touches == ~CallThrows(call) /\ call.name # "validate_task"
         done == StoreOp(call.name, call.taskId, toolContext, tasks, result)
         rest_ == Tail(req[r].calls)
     IN /\ call.name = "create_task" => created < MaxTasks
        /\ tasks' = result.tasks
        /\ created' = IF call.name = "create_task" /\ result.success THEN created + 1 ELSE created
        /\ req' = [req EXCEPT ![r] =
                     [req[r] EXCEPT
                        !.pc = IF rest_ = <<>> THEN "process_result" ELSE "tools",
                        !.trace = IF rest_ = <<>> THEN Append(@, "tools") ELSE @,
                        !.calls = rest_,
                        !.messages = Append(@, ToolAnswer(call, result)),
                        !.toolCallsRun = @ + 1,
                        !.lastCall = call,
                        !.mutatingCallsRun = IF call.name \in MutatingTools THEN @ + 1 ELSE @,
                        !.mutations = @ + Changed(tasks, result.tasks),
                        !.lastOp = IF touches THEN done ELSE @]]
  /\ UNCHANGED <<sessions, toolContext, turns, rest>>

\* process_result with an edge to END instead of chat.
ProcessResultEnds(r) ==
  /\ req[r].pc = "process_result"
  /\ req' = [req EXCEPT ![r] =
               [Step(r, "process_result", "respond") EXCEPT
                  !.ctx = processToolResult(req[r].ctx, req[r].messages)]]
  /\ UNCHANGED <<tasks, created, sessions, toolContext, turns, rest>>

ProcessResult(r) ==
  /\ req[r].pc = "process_result"
  /\ req' = [req EXCEPT ![r] =
               [Step(r, "process_result", "chat") EXCEPT
                  !.ctx = processToolResult(req[r].ctx, req[r].messages)]]
  /\ UNCHANGED <<tasks, created, sessions, toolContext, turns, rest>>

CallSeqs(choices, n) == UNION {[1..k -> choices] : k \in 1..n}

\* ------------------------------------------------------------------------
\* Specification: the server handling one chat request at a time
\* ------------------------------------------------------------------------
SerialStart(u, text) ==
  /\ \A q \in Reqs : req[q].pc = "idle"
  /\ ChatStart("r1", u, text)

Next ==
  \/ \E u \in Users, text \in UserTexts : SerialStart(u, text)
  \/ \E r \in Reqs :
       \/ \E out \in IntentOutputs : AnalyzeIntent(r, out)
       \/ SearchTasks(r)
       \/ HandleConfirmation(r)
       \/ ChatReplies(r)
       \/ \E calls \in CallSeqs(ToolCallChoices, MaxToolCalls) : ChatCallsTools(r, calls)
       \/ ChatThrows(r)
       \/ ToolStep(r)
       \/ ProcessResult(r)
       \/ ChatRespond(r)
       \/ ChatError(r)

Spec == Init /\ [][Next]_vars


\* ------------------------------------------------------------------------
\* REST task routes (server.ts): every filter carries userId: req.userId
\* ------------------------------------------------------------------------
RestFilter(u, id, t) == t._id = id /\ t.userId = u

RestHit(store, u, id) == \E i \in 1..Len(store) : RestFilter(u, id, store[i])

Answer(route, u, id, store, after) ==
  [route |-> route, user |-> u, taskId |-> id, found |-> RestHit(store, u, id),
   owner |-> IF HasTask(store, id) THEN TaskById(store, id).userId ELSE "",
   changed |-> after # store, used |-> rest.used + 1]

\* GET /api/tasks/:id
GetTask(u, id) ==
  /\ rest.used < MaxRest
  /\ rest' = Answer("get", u, id, tasks, tasks)
  /\ UNCHANGED <<tasks, created, sessions, toolContext, req, turns>>

\* PUT /api/tasks/:id
PutTask(u, id, updates) ==
  /\ rest.used < MaxRest
  /\ LET after == [i \in 1..Len(tasks) |->
                     IF RestFilter(u, id, tasks[i]) THEN ApplyUpdates(tasks[i], updates)
                     ELSE tasks[i]]
     IN /\ tasks' = after
        /\ rest' = Answer("put", u, id, tasks, after)
  /\ UNCHANGED <<created, sessions, toolContext, req, turns>>

\* PATCH /api/tasks/:id/complete
PatchComplete(u, id) ==
  /\ rest.used < MaxRest
  /\ LET after == [i \in 1..Len(tasks) |->
                     IF RestFilter(u, id, tasks[i])
                     THEN [tasks[i] EXCEPT !.status = "completed", !.completedAt = newDate(tasks)]
                     ELSE tasks[i]]
     IN /\ tasks' = after
        /\ rest' = Answer("complete", u, id, tasks, after)
  /\ UNCHANGED <<created, sessions, toolContext, req, turns>>

\* DELETE /api/tasks/:id
DeleteTask(u, id) ==
  /\ rest.used < MaxRest
  /\ LET Keep(t) == ~RestFilter(u, id, t)
         after == SelectSeq(tasks, Keep)
     IN /\ tasks' = after
        /\ rest' = Answer("delete", u, id, tasks, after)
  /\ UNCHANGED <<created, sessions, toolContext, req, turns>>

RestUsers == {"u1"}

RestIds == {3, 4}

\* The request slot a user's chat request occupies.
SlotOf(u) == IF u = "u1" THEN "r1" ELSE "r2"

\* ------------------------------------------------------------------------
\* Specification: chat requests of the users in flight together, and REST
\* requests between their steps
\* ------------------------------------------------------------------------
ConcTexts == {T_yes_do}

NextConc ==
  \/ \E u \in Users, text \in ConcTexts : ChatStart(SlotOf(u), u, text)
  \/ \E r \in Reqs :
       \/ \E out \in ConcIntentOutputs : AnalyzeIntent(r, out)
       \/ SearchTasks(r)
       \/ HandleConfirmation(r)
       \/ ChatReplies(r)
       \/ \E calls \in CallSeqs(ConcToolCallChoices, MaxToolCalls) : ChatCallsTools(r, calls)
       \/ ChatThrows(r)
       \/ ToolStep(r)
       \/ ProcessResult(r)
       \/ ChatRespond(r)
       \/ ChatError(r)
  \/ \E u \in RestUsers, id \in RestIds :
       \/ GetTask(u, id)
       \/ PutTask(u, id, Updates("high", ""))
       \/ PatchComplete(u, id)
       \/ DeleteTask(u, id)

SpecConc == Init /\ [][NextConc]_vars

\* ------------------------------------------------------------------------
\* Specification: the tools node running one search_tasks call, over
\* queries, status filters, limits and users
\* ------------------------------------------------------------------------
T_blank == <<" ", " ">>

T_team_report == <<"T", "e", "a", "m", " ", " ", "R", "E", "P", "O", "R", "T">>

T_report_twice == <<"r", "e", "p", "o", "r", "t", " ", "r", "e", "p", "o", "r", "t", " ", "t", "o">>

SearchQueries ==
  { T_report, T_meeting, T_groceries, T_zzz, T_quarterly, T_submit_report,
    T_blank, T_team_report, T_report_twice }

SearchLimits == {1, 2, 5}

InitSearch ==
  /\ InitStore
  /\ turns = 1
  /\ \E u \in Users, query \in SearchQueries, status \in Statuses \cup {""},
        limit \in SearchLimits :
       /\ toolContext = u
       /\ req = [r \in Reqs |->
                   IF r = "r1"
                   THEN [Begin(u, T_finished, <<HumanMessage(T_finished), AIMessage("tool-calls")>>,
                               FreshContext(NoPending))
                           EXCEPT !.pc = "tools", !.trace = <<"analyze_intent", "chat">>,
                                  !.calls = << SearchRequest(query, status, limit) >>]
                   ELSE Idle]

NextSearch == ToolStep("r1")

SpecSearch == InitSearch /\ [][NextSearch]_vars

\* ------------------------------------------------------------------------
\* Specification: chat requests on one session in flight together (the
\* route takes no lock and keeps no queue per session)
\* ------------------------------------------------------------------------
SessionUser == "u2"

NextSession ==
  \/ \E r \in Reqs, text \in ConcTexts : ChatStart(r, SessionUser, text)
  \/ \E r \in Reqs :
       \/ \E out \in ConcIntentOutputs : AnalyzeIntent(r, out)
       \/ SearchTasks(r)
       \/ HandleConfirmation(r)
       \/ ChatReplies(r)
       \/ \E calls \in CallSeqs(ConcToolCallChoices, MaxToolCalls) : ChatCallsTools(r, calls)
       \/ ChatThrows(r)
       \/ ToolStep(r)
       \/ ProcessResult(r)
       \/ ChatRespond(r)
       \/ ChatError(r)

SpecSession == Init /\ [][NextSession]_vars

\* ------------------------------------------------------------------------
\* Specification: the compiled workflow invoked on a given input state
\* (agentWorkflow.invoke), tool context set for the invoking user
\* ------------------------------------------------------------------------
Awaiting(action, taskId, updates) ==
  [FreshContext(NoPending) EXCEPT
     !.awaitingConfirmation = TRUE, !.selectedTaskId = taskId,
     !.operationDetails = MakeOperation(action, taskId, updates),
     !.foundTasks = << Scored(TaskById(InitialTasks, taskId), 125) >>]

GraphContexts ==
  { FreshContext(NoPending),
    Awaiting("complete", 3, NoUpdates),
    Awaiting("delete", 1, NoUpdates),
    Awaiting("update", 3, Updates("high", "")),
    Awaiting("update", 3, Updates("urgent", "")),
    Awaiting("complete", 4, NoUpdates),
    Awaiting("list", 3, NoUpdates),
    [Awaiting("complete", 3, NoUpdates) EXCEPT !.operationDetails = NoOperation,
                                               !.selectedTaskId = 0] }

GraphTexts == {T_yes, T_no, T_finished}

InitGraph ==
  /\ InitStore
  /\ toolContext = "u1"
  /\ turns = 1
  /\ \E ctx \in GraphContexts, text \in GraphTexts :
       req = [r \in Reqs |-> IF r = "r1"
                             THEN Begin("u1", text, <<HumanMessage(text)>>, ctx)
                             ELSE Idle]

NextGraph ==
  \/ \E out \in IntentOutputs : AnalyzeIntent("r1", out)
  \/ SearchTasks("r1")
  \/ HandleConfirmation("r1")
  \/ ChatReplies("r1")
  \/ \E calls \in CallSeqs(ToolCallChoices, MaxToolCalls) : ChatCallsTools("r1", calls)
  \/ ChatThrows("r1")
  \/ ToolStep("r1")
  \/ ProcessResult("r1")

SpecGraph == InitGraph /\ [][NextGraph]_vars

\* The workflow runs a node whenever one is scheduled.
SpecGraphLive == SpecGraph /\ WF_vars(NextGraph)

\* ------------------------------------------------------------------------
\* Specification: the confirmation handler on a pending question, over
\* the texts a user may answer with
\* ------------------------------------------------------------------------
Keywords == confirmKeywords \cup cancelKeywords

Replies ==
  UNION { { kw, kw \o <<" ", "n", "o", "w">>, kw \o <<"s">>, kw \o <<"!">>,
            <<" ">> \o toUpperCase(kw) \o <<" ">> } : kw \in Keywords }
  \cup {T_yesterday, T_nothing, T_finished, T_yes_do, T_no_thanks, T_ok_comma, <<>>}

InitReply ==
  /\ InitStore
  /\ toolContext = "u1"
  /\ turns = 1
  /\ \E text \in Replies :
       req = [r \in Reqs |->
                IF r = "r1"
                THEN [Begin("u1", text, <<HumanMessage(text)>>, Awaiting("complete", 3, NoUpdates))
                        EXCEPT !.pc = "handle_confirmation", !.trace = <<"analyze_intent">>,
                               !.routedCtx = Awaiting("complete", 3, NoUpdates)]
                ELSE Idle]

NextReply == HandleConfirmation("r1")

SpecReply == InitReply /\ [][NextReply]_vars

\* ========================================================================
\* Properties
\* ========================================================================
ModifyActions == {"update", "delete", "complete"}

SearchActions == {"create", "update", "delete", "complete", "list"}

JustAnalyzed(q) == q.trace = <<"analyze_intent">>

JustSearched(q) == q.trace = <<"analyze_intent", "search_tasks">>

Searched(q) == Len(q.trace) >= 2 /\ q.trace[2] = "search_tasks"

Visited(q, node) == \E i \in 1..Len(q.trace) : q.trace[i] = node

\* C1: after intent analysis the next stage is confirmation handling
\* whenever awaitingConfirmation is true, whatever the classified action;
\* otherwise search for create, update, delete, complete and list, and chat
\* for action chat or when no intent is present.
C1_RouteAfterIntent ==
  \A r \in Reqs :
    JustAnalyzed(req[r]) =>
      LET ctx == req[r].routedCtx
      IN /\ ctx.awaitingConfirmation => req[r].pc = "handle_confirmation"
         /\ (~ctx.awaitingConfirmation /\ ctx.userIntent.present
               /\ ctx.userIntent.action \in SearchActions)
              => req[r].pc = "search_tasks"
         /\ (~ctx.awaitingConfirmation
               /\ (~ctx.userIntent.present \/ ctx.userIntent.action = "chat"))
              => req[r].pc = "chat"

\* A pending question and a reply classified as a delete request: the
\* turn is at confirmation handling.
C1_Witness ==
  \E r \in Reqs :
    /\ JustAnalyzed(req[r])
    /\ req[r].routedCtx.awaitingConfirmation
    /\ req[r].routedCtx.userIntent.action = "delete"
    /\ req[r].pc = "handle_confirmation"

C3_ToolsActForTurnOwner ==
  \A r \in Reqs :
    LET op == req[r].lastOp
    IN op.tool # "" =>
         /\ \A i \in 1..Len(op.found) : op.found[i].userId = req[r].user
         /\ (op.tool \in MutatingTools /\ op.success) => op.hitOwner = req[r].user

\* C4: get, update, complete and delete on a task id owned by another user
\* report not-found and leave that task unchanged, through the REST routes
\* and through the update_task, complete_task and delete_task tools alike,
\* for every value of the tool context in which the tool can be invoked.
C4_OtherUsersTaskNotFound ==
  /\ (rest.route # "" /\ rest.owner # "" /\ rest.owner # rest.user)
       => ~rest.found /\ ~rest.changed
  /\ \A r \in Reqs :
       LET op == req[r].lastOp
       IN (/\ op.tool \in {"update_task", "complete_task", "delete_task"}
           /\ op.owner # "" /\ op.owner # req[r].user)
            => ~op.success /\ op.changed = 0

\* The values the search stage sets for a single match.
ConfirmationSetFor(ctx, action, taskId) ==
  /\ ctx.awaitingConfirmation
  /\ ctx.selectedTaskId = taskId
  /\ ctx.operationDetails.present
  /\ ctx.operationDetails.action = action
  /\ ctx.operationDetails.taskId = taskId

\* Some field of the intent's extractedInfo names a change.
HasExtractedField(info) ==
  \/ info.title # <<>> \/ info.description # <<>> \/ info.priority # ""
  \/ info.status # "" \/ info.dueDate # <<>>

\* Some field of the intent's extractedInfo gives an entry of the update
\* set: a due date counts only when a date is recognised in it.
HasUsableField(info) ==
  \/ info.title # <<>> \/ info.description # <<>> \/ info.priority # ""
  \/ info.status # ""
  \/ info.dueDate # <<>> /\ chronoParseDate(info.dueDate, 1) # 0

C5_Holds(q, applies) ==
  (/\ Searched(q) /\ ~q.startCtx.awaitingConfirmation
   /\ q.ctx.userIntent.action \in ModifyActions
   /\ q.search.count = 1 /\ applies)
    => LET taskId == q.lastSearch[1]._id
       IN /\ JustSearched(q) =>
               /\ ConfirmationSetFor(q.ctx, q.ctx.userIntent.action, taskId)
               /\ q.pc = "handle_confirmation"
          /\ (/\ q.pc = "respond" /\ q.reply.handled
              /\ ~q.reply.confirmed /\ ~q.reply.cancelled /\ q.toolCallsRun = 0)
               => ConfirmationSetFor(q.ctx, q.ctx.userIntent.action, taskId)

\* C5 as stated: a turn that starts with awaitingConfirmation false, with
\* intent delete, complete, or update with at least one extracted field to
\* change, and a search returning exactly one task, has awaitingConfirmation
\* true, selectedTaskId that task's id and operationDetails the intent's
\* action with that id after the search stage, and is routed to
\* confirmation handling; when the message is neither an affirmative nor a
\* negative reply and the chat stage calls no tool, the values still hold
\* when the turn ends.
C5_SingleMatchAsksConfirmation ==
  \A r \in Reqs :
    C5_Holds(req[r], req[r].ctx.userIntent.action = "update"
                       => HasExtractedField(req[r].ctx.userIntent.info))

\* C5 as the code has it: the same, for delete, complete, and update whose
\* computed update set is not empty, that is with an extracted title,
\* description, priority or status, or an extracted due date in which a
\* date is recognised.
C5_SingleMatchWithUpdatesAsksConfirmation ==
  \A r \in Reqs :
    C5_Holds(req[r], req[r].ctx.userIntent.action = "update"
                       => HasUsableField(req[r].ctx.userIntent.info))

\* An update of the priority with one match, an unresolved message and no
\* tool call, at the end of the turn with the confirmation still pending.
C5_Witness ==
  \E r \in Reqs :
    /\ req[r].pc = "respond" /\ Searched(req[r]) /\ req[r].search.count = 1
    /\ req[r].ctx.userIntent.action = "update"
    /\ req[r].ctx.userIntent.info.priority = "high"
    /\ req[r].reply.handled /\ ~req[r].reply.confirmed /\ ~req[r].reply.cancelled
    /\ req[r].toolCallsRun = 0
    /\ ConfirmationSetFor(req[r].ctx, "update", 4)

\* C6: when the intent is update, delete or complete and the search
\* returns no task or two or more tasks, the turn goes from search to chat
\* without passing through confirmation handling, awaitingConfirmation
\* stays false, operationDetails and selectedTaskId stay absent, and the
\* confirmation handler performs no store operation in that turn.
C6_NoneOrManyGoToChat ==
  \A r \in Reqs :
    (/\ Searched(req[r]) /\ req[r].ctx.userIntent.action \in ModifyActions
     /\ req[r].search.count # 1)
      => /\ JustSearched(req[r]) => req[r].pc = "chat"
         /\ req[r].pc # "handle_confirmation"
         /\ ~Visited(req[r], "handle_confirmation")
         /\ ~req[r].ctx.awaitingConfirmation
         /\ ~req[r].ctx.operationDetails.present
         /\ req[r].ctx.selectedTaskId = 0
         /\ req[r].handlerOps = <<>>

\* A delete request matching two tasks, after a tool call of the chat stage.
C6_Witness ==
  \E r \in Reqs :
    /\ Searched(req[r]) /\ req[r].ctx.userIntent.action = "delete"
    /\ req[r].search.count = 2
    /\ Visited(req[r], "tools")
    /\ req[r].pc = "respond"

\* C7: when the intent is update, exactly one task matches and the
\* computed update set is empty, the turn skips confirmation handling: it
\* goes from search directly to chat, with foundTasks set and
\* awaitingConfirmation, operationDetails and selectedTaskId not set.
C7_EmptyUpdateSkipsConfirmation ==
  \A r \in Reqs :
    (/\ Searched(req[r]) /\ req[r].ctx.userIntent.action = "update"
     /\ req[r].search.count = 1
     /\ ~HasUsableField(req[r].ctx.userIntent.info))
      => /\ req[r].pc # "handle_confirmation"
         /\ ~Visited(req[r], "handle_confirmation")
         /\ JustSearched(req[r]) =>
              /\ req[r].pc = "chat"
              /\ req[r].ctx.foundTasks = req[r].lastSearch
              /\ ~req[r].ctx.awaitingConfirmation
              /\ ~req[r].ctx.operationDetails.present
              /\ req[r].ctx.selectedTaskId = 0

\* C8: for intent create, after the search stage the turn is routed to
\* confirmation handling exactly when some found task has score greater
\* than 80 and a status other than completed; otherwise it is routed to chat.
C8_CreateRouting ==
  \A r \in Reqs :
    (JustSearched(req[r]) /\ req[r].ctx.userIntent.action = "create")
      => LET found == req[r].ctx.foundTasks
             similar == \E i \in 1..Len(found) :
                           found[i].matchScore > 80 /\ found[i].status # "completed"
         IN /\ similar => req[r].pc = "handle_confirmation"
            /\ ~similar => req[r].pc = "chat"

\* A create request whose only close match is a completed task: routed to chat.
C8_Witness ==
  \E r \in Reqs :
    /\ JustSearched(req[r]) /\ req[r].ctx.userIntent.action = "create"
    /\ \E i \in 1..Len(req[r].ctx.foundTasks) :
         /\ req[r].ctx.foundTasks[i].matchScore > 80
         /\ req[r].ctx.foundTasks[i].status = "completed"
    /\ req[r].pc = "chat"

\* The reply tests, stated on the text itself.
IsToken(content, kw) == content = kw

BeginsWith(content, kw) ==
  Len(content) >= Len(kw) /\ SubSeq(content, 1, Len(kw)) = kw

BeginsWithWord(content, kw) ==
  Len(content) > Len(kw) /\ SubSeq(content, 1, Len(kw)) = kw /\ content[Len(kw) + 1] = " "

\* What the handler did with the reply: executed the pending operation,
\* cleared the pending question, or left the context as it was.
HandlerExecuted(q) == q.handlerOps # <<>>

HandlerCleared(q) ==
  /\ q.handlerOps = <<>> /\ ~q.ctx.awaitingConfirmation
  /\ ~q.ctx.operationDetails.present /\ q.ctx.selectedTaskId = 0

HandlerLeft(q) == q.handlerOps = <<>> /\ q.ctx = q.routedCtx

Replied(q) ==
  /\ q.reply.handled /\ Last(q.trace) = "handle_confirmation"
  /\ q.routedCtx.operationDetails.present /\ q.routedCtx.selectedTaskId # 0
  /\ q.reply.content = trim(toLowerCase(q.text))

C9_Classifies(q, affirms, denies) ==
  /\ affirms => HandlerExecuted(q)
  /\ (~affirms /\ denies) => HandlerCleared(q)
  /\ (~affirms /\ ~denies) => HandlerLeft(q)

\* C9 as stated: the handler classifies the lowercased, trimmed reply as
\* CONFIRMED exactly when it equals or starts with one of the affirmative
\* tokens, as CANCELLED exactly when it equals or starts with one of the
\* negative tokens, and as UNRESOLVED otherwise.
C9_ReplyStartsWithToken ==
  \A r \in Reqs :
    LET c == req[r].reply.content
    IN Replied(req[r]) =>
         C9_Classifies(req[r],
                       \E kw \in confirmKeywords : IsToken(c, kw) \/ BeginsWith(c, kw),
                       \E kw \in cancelKeywords : IsToken(c, kw) \/ BeginsWith(c, kw))

\* C9 as the code has it: CONFIRMED exactly when the lowercased, trimmed
\* reply equals an affirmative token or starts with one followed by a
\* space; otherwise CANCELLED exactly when it equals a negative token or
\* starts with one followed by a space; UNRESOLVED otherwise.
C9_ReplyStartsWithTokenAndSpace ==
  \A r \in Reqs :
    LET c == req[r].reply.content
    IN Replied(req[r]) =>
         C9_Classifies(req[r],
                       \E kw \in confirmKeywords : IsToken(c, kw) \/ BeginsWithWord(c, kw),
                       \E kw \in cancelKeywords : IsToken(c, kw) \/ BeginsWithWord(c, kw))

\* The reply "yesterday" handled on a pending question: left unresolved.
C9_Witness ==
  \E r \in Reqs :
    /\ req[r].reply.handled /\ req[r].reply.content = T_yesterday
    /\ req[r].routedCtx.awaitingConfirmation
    /\ HandlerLeft(req[r])

\* C10: a CONFIRMED reply handled with both operationDetails and
\* selectedTaskId present makes the confirmation handler perform exactly
\* one store operation, the one named by operationDetails.action (update,
\* complete or delete) on the task selectedTaskId; for action complete on an
\* existing task of the owner with status todo, that task's status is
\* completed and awaitingConfirmation is false afterwards.
C10_ConfirmedExecutesOnce ==
  \A r \in Reqs :
    LET q == req[r]
        before == q.routedCtx
    IN (/\ q.reply.handled /\ q.reply.confirmed /\ Last(q.trace) = "handle_confirmation"
        /\ before.operationDetails.present /\ before.selectedTaskId # 0
        /\ before.operationDetails.action \in ModifyActions)
         => /\ Len(q.handlerOps) = 1
            /\ q.handlerOps[1].tool = ConfirmedToolName(before.operationDetails.action)
            /\ q.handlerOps[1].taskId = before.selectedTaskId
            /\ (/\ before.operationDetails.action = "complete"
                /\ q.target.owner = q.user /\ q.target.before = "todo")
                 => q.target.after = "completed" /\ ~q.ctx.awaitingConfirmation

\* The three kinds of reply, on the lowercased, trimmed text.
Affirmative(c) == \E kw \in confirmKeywords : IsToken(c, kw) \/ BeginsWithWord(c, kw)

Negative(c) == \E kw \in cancelKeywords : IsToken(c, kw) \/ BeginsWithWord(c, kw)

JustHandled(q) ==
  /\ q.reply.handled /\ Last(q.trace) = "handle_confirmation"
  /\ q.reply.content = trim(toLowerCase(q.text))

\* C11: a CONFIRMED reply handled while operationDetails or selectedTaskId
\* is absent performs no store operation and clears the confirmation state
\* exactly as a CANCELLED reply does: afterwards awaitingConfirmation is
\* false and operationDetails, selectedTaskId and foundTasks are cleared.
C11_ConfirmedWithoutOperationClears ==
  \A r \in Reqs :
    (/\ JustHandled(req[r]) /\ Affirmative(req[r].reply.content)
     /\ (~req[r].routedCtx.operationDetails.present \/ req[r].routedCtx.selectedTaskId = 0))
      => /\ req[r].handlerOps = <<>>
         /\ ~req[r].ctx.awaitingConfirmation
         /\ ~req[r].ctx.operationDetails.present
         /\ req[r].ctx.selectedTaskId = 0
         /\ req[r].ctx.foundTasks = <<>>

\* C12: a CANCELLED reply sets awaitingConfirmation to false, clears
\* operationDetails and selectedTaskId, empties foundTasks, and performs no
\* store operation: the target of the pending operation is unchanged.
C12_CancelledClears ==
  \A r \in Reqs :
    (JustHandled(req[r]) /\ ~Affirmative(req[r].reply.content)
       /\ Negative(req[r].reply.content))
      => /\ ~req[r].ctx.awaitingConfirmation
         /\ ~req[r].ctx.operationDetails.present
         /\ req[r].ctx.selectedTaskId = 0
         /\ req[r].ctx.foundTasks = <<>>
         /\ req[r].handlerOps = <<>>
         /\ req[r].mutations = 0
         /\ req[r].target.after = req[r].target.before

\* The reply "No thanks" to the pending completion of task 3.
C12_Witness ==
  \E r \in Reqs :
    /\ JustHandled(req[r]) /\ req[r].text = T_no_thanks
    /\ req[r].routedCtx.awaitingConfirmation
    /\ req[r].routedCtx.selectedTaskId = 3
    /\ req[r].routedCtx.foundTasks # <<>>
    /\ req[r].ctx.foundTasks = <<>>
    /\ req[r].target.before = "todo" /\ req[r].target.after = "todo"

\* C13: an UNRESOLVED reply leaves the whole turn context as the handler
\* found it: awaitingConfirmation remains true, operationDetails,
\* selectedTaskId and foundTasks are unchanged, the handler appends no
\* message and performs no store operation.
C13_UnresolvedLeavesContext ==
  \A r \in Reqs :
    (JustHandled(req[r]) /\ ~Affirmative(req[r].reply.content)
       /\ ~Negative(req[r].reply.content))
      => /\ req[r].ctx = req[r].routedCtx
         /\ req[r].routedCtx.awaitingConfirmation => req[r].ctx.awaitingConfirmation
         /\ req[r].handlerSaid = 0
         /\ req[r].handlerOps = <<>>
         /\ req[r].mutations = 0

\* The reply "I finished the report" to the pending completion of task 3.
C13_Witness ==
  \E r \in Reqs :
    /\ JustHandled(req[r]) /\ req[r].text = T_finished
    /\ req[r].ctx.awaitingConfirmation
    /\ req[r].ctx.selectedTaskId = 3
    /\ req[r].ctx.operationDetails.action = "complete"
    /\ Len(req[r].messages) = 1

\* C14: once a CONFIRMED reply has been handled and the confirmation state
\* cleared, sending the same affirmative reply again in a later turn of the
\* session is a no-op for the task store: the confirmation handler performs
\* no second store operation, operationDetails and selectedTaskId being
\* absent.
C14_ReplayedConfirmationIsNoOp ==
  \A r \in Reqs :
    (/\ req[r].pc # "idle"
     /\ req[r].text \in req[r].startSession.executed
     /\ Affirmative(trim(toLowerCase(req[r].text))))
      => req[r].handlerOps = <<>>

\* C16: a turn either runs to completion or fails atomically: when a turn
\* ends with an exception at the boundary, the task store and the persisted
\* session are exactly as they were before the turn, so no store mutation
\* executed earlier in the failed turn remains.
C16_FailedTurnIsAtomic ==
  \A r \in Reqs :
    req[r].pc = "failed"
      => /\ req[r].mutations = 0
         /\ sessions[req[r].user] = req[r].startSession

FailedStep(r) == req[r].pc = "failed" /\ req'[r].pc = "idle"

\* C17: when an exception reaches the boundary the request is answered
\* with the generic failure response and the session's persisted state is
\* left untouched, the session being saved only after the workflow has
\* completed.
C17_FailureLeavesSession ==
  [][\A r \in Reqs : FailedStep(r) => sessions' = sessions]_vars

\* A turn of a session that already holds messages fails after the handler
\* and the chat stage have run.
C17_Witness ==
  \E r \in Reqs :
    /\ req[r].pc = "failed"
    /\ Visited(req[r], "handle_confirmation")
    /\ sessions[req[r].user].messages # <<>>
    /\ sessions[req[r].user] = req[r].startSession

InFlight(q) == q.pc # "idle"

ExecutedConfirmed(q) == \E i \in 1..Len(q.handlerOps) : q.handlerOps[i].success

C15_ReadsAfterWrite ==
  \A r \in Reqs : InFlight(req[r]) => req[r].startSession = sessions[req[r].user]

C15_ExecutedOnceInFlight ==
  \A r, q \in Reqs :
       (/\ r # q /\ InFlight(req[r]) /\ InFlight(req[q]) /\ req[r].user = req[q].user
        /\ ExecutedConfirmed(req[r]) /\ ExecutedConfirmed(req[q]))
         => req[r].handlerOps[1].taskId # req[q].handlerOps[1].taskId

\* C15: for two chat requests on the same session, the second one reads
\* the session's state only after the first one's write has completed;
\* therefore a pending confirmed operation is executed at most once even
\* when two affirmative replies for that session are in flight at the same
\* time, and no message or context update of one turn is lost to the other.
C15_SessionTurnsSerialized == C15_ReadsAfterWrite /\ C15_ExecutedOnceInFlight
\* The score of the matcher, stated on the texts.
Contains(text, part) ==
  \E k \in 0..Len(text) : k + Len(part) <= Len(text) /\ SubSeq(text, k + 1, k + Len(part)) = part

WordStarts(q) == {i \in 1..Len(q) : ~IsSpace(q[i]) /\ (i = 1 \/ IsSpace(q[i - 1]))}

WordEnd(q, i) == CHOOSE j \in i..Len(q) :
                   /\ \A k \in i..j : ~IsSpace(q[k])
                   /\ (j = Len(q) \/ IsSpace(q[j + 1]))

LongWordStarts(q) == {i \in WordStarts(q) : WordEnd(q, i) - i + 1 > 2}

ExpectedScore(task, query) ==
  LET q == toLowerCase(query)
      title == toLowerCase(task.title)
      description == toLowerCase(task.description)
  IN (IF Contains(title, q) THEN 100 ELSE 0)
     + (IF Contains(description, q) THEN 50 ELSE 0)
     + 20 * Cardinality({i \in LongWordStarts(q) : Contains(title, SubSeq(q, i, WordEnd(q, i)))})
     + 10 * Cardinality({i \in LongWordStarts(q) : Contains(description, SubSeq(q, i, WordEnd(q, i)))})
     + (IF task.status # "completed" THEN 5 ELSE 0)

C18_Holds(q) ==
  LET call == q.lastCall
      found == q.lastOp.found
      status == call.updates.status
      candidates == {i \in 1..Len(tasks) :
                       /\ tasks[i].userId = q.user
                       /\ status # "" => tasks[i].status = status
                       /\ ExpectedScore(tasks[i], call.text) > 0}
      Returned(id) == \E k \in 1..Len(found) : found[k]._id = id
  IN /\ q.lastOp.success
     /\ \A k \in 1..Len(found) :
          \E i \in candidates :
            /\ tasks[i]._id = found[k]._id
            /\ found[k].matchScore = ExpectedScore(tasks[i], call.text)
     /\ \A k, m \in 1..Len(found) :
          /\ k < m => found[k].matchScore >= found[m].matchScore
          /\ k # m => found[k]._id # found[m]._id
     /\ Len(found) = IF Cardinality(candidates) < call.limit
                     THEN Cardinality(candidates) ELSE call.limit
     /\ \A i \in candidates :
          ~Returned(tasks[i]._id) =>
             \A k \in 1..Len(found) : found[k].matchScore >= ExpectedScore(tasks[i], call.text)

Searching(q) == q.lastCall.name = "search_tasks" /\ q.lastOp.tool = "search_tasks"
                  /\ q.lastOp.ctxUser = q.user

\* C18 as stated: for a non-empty query, search returns, among the
\* owner's tasks (optionally status-filtered), exactly those whose score is
\* greater than 0, the score being 100 if the lowercased query is a
\* substring of the title, plus 50 if of the description, plus 20 for each
\* query word longer than 2 characters found in the title, plus 10 for each
\* such word found in the description, plus 5 if the status is not
\* completed; ordered by descending score and truncated to limit.
C18_SearchScoresNonEmptyQuery ==
  \A r \in Reqs :
    (Searching(req[r]) /\ req[r].lastCall.text # <<>>) => C18_Holds(req[r])

\* C18 as the code has it: the same for a query that is not empty after
\* trimming; a query of white space only is treated as the empty query.
C18_SearchScoresNonBlankQuery ==
  \A r \in Reqs :
    (Searching(req[r]) /\ trim(req[r].lastCall.text) # <<>>) => C18_Holds(req[r])

\* The query "meeting" with limit 1 over u1's tasks: one of the two tasks
\* scoring 125 is returned.
C18_Witness ==
  \E r \in Reqs :
    /\ Searching(req[r]) /\ req[r].user = "u1"
    /\ req[r].lastCall.text = T_meeting /\ req[r].lastCall.limit = 1
    /\ Len(req[r].lastOp.found) = 1
    /\ req[r].lastOp.found[1].matchScore = 125

ActionTypes == {"create", "update", "delete", "complete", "list", "chat"}

FailedAnalysis(q) == JustAnalyzed(q) /\ q.intentKind \in {"nojson", "badjson", "throws"}

\* C19: intent analysis fails soft: when the model's output holds no JSON
\* object, when the JSON cannot be parsed, or when the model call throws,
\* the intent is {action chat, confidence 0.5} with an explanatory reason,
\* the turn goes on to its next stage and the task store is untouched.
C19_IntentAnalysisFailsSoft ==
  \A r \in Reqs :
    FailedAnalysis(req[r]) =>
      LET intent == req[r].ctx.userIntent
      IN /\ intent.present /\ intent.action = "chat" /\ intent.confidence = 50
         /\ intent.reason \in {"Could not determine intent", "Error during intent analysis"}
         /\ req[r].pc \in {"chat", "handle_confirmation"}
         /\ req[r].mutations = 0 /\ req[r].lastOp = NoStoreOp

\* Each of the three failures has been analysed.
C19_Witness ==
  \E r \in Reqs :
    /\ FailedAnalysis(req[r]) /\ req[r].intentKind = "badjson"
    /\ req[r].ctx.userIntent.reason = "Error during intent analysis"
    /\ req[r].pc = "chat"

\* C20: in every turn context, userIntent is absent or its action is one of
\* create, update, delete, complete, list, chat, whatever the language
\* model returned to the intent analyzer.
C20_IntentActionIsKnown ==
  \A r \in Reqs :
    req[r].pc # "idle" =>
      (~req[r].ctx.userIntent.present \/ req[r].ctx.userIntent.action \in ActionTypes)

ValidateStep(r) ==
  /\ req[r].pc = "tools" /\ req[r].calls # <<>>
  /\ Head(req[r].calls).name = "validate_task"
  /\ req'[r] # req[r]

\* C21: validate is a pure function of its input fields: with no title it
\* answers canCreate false with missingFields containing "title", with a
\* non-empty title canCreate true with no missing fields; the call changes
\* neither the task store nor the turn context, and its answer depends on
\* the input only.
C21_ValidateIsPure ==
  [][\A r \in Reqs :
       ValidateStep(r) =>
         LET title == Head(req[r].calls).text
             answer == Last(req'[r].messages)
         IN /\ tasks' = tasks /\ created' = created /\ sessions' = sessions
            /\ req'[r].ctx = req[r].ctx
            /\ Len(req'[r].messages) = Len(req[r].messages) + 1
            /\ answer.role = "tool"
            /\ title = <<>> =>
                 /\ answer.kind = "cannot-create"
                 /\ \E i \in 1..Len(answer.data.missingFields) :
                      answer.data.missingFields[i] = "title"
            /\ title # <<>> =>
                 /\ answer.kind = "can-create"
                 /\ answer.data.missingFields = <<>>]_vars

\* validate_task has answered a call without a title, in a turn after the
\* store was changed.
C21_Witness ==
  \E r \in Reqs :
    /\ req[r].pc = "process_result"
    /\ req[r].lastCall.name = "validate_task" /\ req[r].lastCall.text = <<>>
    /\ Last(req[r].messages).kind = "cannot-create"
    /\ tasks # InitialTasks

CompletedAtOf(store, id) == IF HasTask(store, id) THEN TaskById(store, id).completedAt ELSE 0

TaskIds == 1..MaxTasks

\* C22: complete on an existing task of the owner sets its status to
\* completed and writes its completion timestamp; over any sequence of
\* create, update, complete and delete operations the completion timestamp
\* of a task is written only by an operation that moves the task from a
\* status other than completed to completed.
C22_CompletedAtWrittenOnTransition ==
  [][/\ \A r \in Reqs :
          (/\ req[r].pc = "tools" /\ req'[r] # req[r]
           /\ req'[r].lastCall.name = "complete_task"
           /\ toolContext = req[r].user
           /\ HasTask(tasks, req'[r].lastCall.taskId)
           /\ TaskById(tasks, req'[r].lastCall.taskId).userId = req[r].user)
          => /\ StatusOf(tasks', req'[r].lastCall.taskId) = "completed"
             /\ CompletedAtOf(tasks', req'[r].lastCall.taskId) # 0
     /\ \A id \in TaskIds :
          (HasTask(tasks', id) /\ CompletedAtOf(tasks', id) # CompletedAtOf(tasks, id))
          => /\ StatusOf(tasks, id) # "completed"
             /\ StatusOf(tasks', id) = "completed"]_vars

ConfirmedPending(q) ==
  /\ JustHandled(q) /\ Affirmative(q.reply.content)
  /\ q.routedCtx.operationDetails.present /\ q.routedCtx.selectedTaskId # 0

\* C23: after a CONFIRMED reply is executed the handler has set
\* awaitingConfirmation to false and cleared operationDetails and
\* selectedTaskId; when the store operation succeeded it has also emptied
\* foundTasks and appended one assistant message reporting success; when
\* the store operation reported failure or threw it has left foundTasks as
\* they were and appended one assistant message describing the failure.
C23_ConfirmedOutcome ==
  \A r \in Reqs :
    ConfirmedPending(req[r]) =>
      LET q == req[r]
          ran == q.handlerOps # <<>>
          succeeded == ran /\ q.handlerOps[Len(q.handlerOps)].success
          failed == (ran /\ ~q.handlerOps[Len(q.handlerOps)].success) \/ q.handlerThrew
      IN /\ ~q.ctx.awaitingConfirmation
         /\ ~q.ctx.operationDetails.present
         /\ q.ctx.selectedTaskId = 0
         /\ q.routedCtx.operationDetails.action \in {"update", "complete", "delete"}
              => (succeeded \/ failed)
         /\ succeeded =>
              /\ q.ctx.foundTasks = <<>>
              /\ q.handlerSaid = 1
              /\ Last(q.messages).role = "ai" /\ Last(q.messages).kind = "confirm-ok"
         /\ failed =>
              /\ q.ctx.foundTasks = q.routedCtx.foundTasks
              /\ q.handlerSaid = 1
              /\ Last(q.messages).role = "ai"
              /\ Last(q.messages).kind \in {"confirm-failed", "confirm-error"}

\* "yes" to the pending completion of a task the user's tools do not find:
\* the failure is reported and foundTasks stay.
C23_Witness ==
  \E r \in Reqs :
    /\ ConfirmedPending(req[r])
    /\ req[r].handlerOps # <<>> /\ ~req[r].handlerOps[1].success
    /\ req[r].ctx.foundTasks # <<>>
    /\ Last(req[r].messages).kind = "confirm-failed"
    /\ ~req[r].ctx.awaitingConfirmation

ProcessStep(r) == req[r].pc = "process_result" /\ req'[r].pc = "chat"

\* C24: tool-result processing, applied to the last tool message: a
\* validation result with canCreate false sets pendingTask to the collected
\* fields plus the reported missingFields; one with canCreate true clears
\* pendingTask; a result with success true clears pendingTask,
\* operationDetails, selectedTaskId, foundTasks and sets
\* awaitingConfirmation false; a result with success false, or content that
\* is not JSON, changes nothing.
C24_ProcessToolResult ==
  [][\A r \in Reqs :
       ProcessStep(r) =>
         LET answer == Last(req[r].messages)
             before == req[r].ctx
             after == req'[r].ctx
         IN /\ answer.role = "tool"
            /\ answer.kind = "cannot-create" =>
                 /\ after.pendingTask.present
                 /\ after.pendingTask.title = answer.data.title
                 /\ after.pendingTask.missingFields = answer.data.missingFields
                 /\ after = [before EXCEPT !.pendingTask = after.pendingTask]
            /\ answer.kind = "can-create" =>
                 after = [before EXCEPT !.pendingTask = NoPending]
            /\ answer.kind = "success" =>
                 /\ ~after.pendingTask.present /\ ~after.awaitingConfirmation
                 /\ ~after.operationDetails.present /\ after.selectedTaskId = 0
                 /\ after.foundTasks = <<>>
                 /\ after.userIntent = before.userIntent
            /\ answer.kind \in {"failure", "error-text"} => after = before
            /\ req'[r].messages = req[r].messages
            /\ tasks' = tasks]_vars

\* A failed tool call was processed while a confirmation was pending: the
\* pending confirmation is still there.
C24_Witness ==
  \E r \in Reqs :
    /\ req[r].pc = "chat" /\ Last(req[r].trace) = "process_result"
    /\ Last(req[r].messages).kind = "failure"
    /\ req[r].ctx.awaitingConfirmation /\ req[r].ctx.selectedTaskId # 0

Follows(node) ==
  IF node = "analyze_intent" THEN {"search_tasks", "handle_confirmation", "chat"}
  ELSE IF node = "search_tasks" THEN {"handle_confirmation", "chat"}
  ELSE IF node = "handle_confirmation" THEN {"chat"}
  ELSE IF node = "chat" THEN {"tools", "respond", "failed"}
  ELSE IF node = "tools" THEN {"process_result"}
  ELSE IF node = "process_result" THEN {"chat"}
  ELSE {}

Ended(q) == q.pc \in {"respond", "failed"}

\* The response of the chat stage: the last assistant message (the tool
\* messages of the calls already run follow it).
ChatResponse(q) ==
  q.messages[SetMax({i \in 1..Len(q.messages) : q.messages[i].role = "ai"})]

StagesInOrder(q) ==
  /\ q.trace = <<>> => q.pc = "analyze_intent"
  /\ q.trace # <<>> =>
       /\ q.trace[1] = "analyze_intent"
       /\ \A i \in 1..(Len(q.trace) - 1) : q.trace[i + 1] \in Follows(q.trace[i])
       /\ q.pc \in Follows(Last(q.trace))
       /\ (Last(q.trace) = "chat" /\ q.pc # "failed") =>
            /\ \E i \in 1..Len(q.messages) : q.messages[i].role = "ai"
            /\ ChatResponse(q).kind = "tool-calls" <=> q.pc = "tools"
            /\ ChatResponse(q).kind = "reply" <=> q.pc = "respond"
            /\ q.pc = "respond" => Last(q.messages) = ChatResponse(q)
  /\ Ended(q) => Last(q.trace) = "chat"

\* C25: within a turn the stages occur in the order intent analysis, then
\* search (optional), then confirmation handling (optional), then chat;
\* every chat response that contains tool calls is followed by tool
\* execution, then tool-result processing, then chat again; the turn ends
\* (the workflow returns) exactly when the chat stage produces a response
\* with no tool calls; and every turn in which the model stops requesting
\* tools terminates, in the chat stage (with that response, or with the
\* exception of the model call).
C25_StageOrderAndTermination ==
  /\ [](\A r \in Reqs : InFlight(req[r]) => StagesInOrder(req[r]))
  /\ \A r \in Reqs : InFlight(req[r]) ~> (Ended(req[r]) /\ Last(req[r].trace) = "chat")

\* A turn that went through every stage and one round of tools has ended
\* with a plain response.
C25_Witness ==
  \E r \in Reqs :
    req[r].pc = "respond"
    /\ req[r].trace = <<"analyze_intent", "search_tasks", "handle_confirmation", "chat",
                        "tools", "process_result", "chat">>

\* C26: the confirmation handler performs a store mutation only in a turn
\* that started with awaitingConfirmation true, that is, in response to a
\* message sent after the confirmation was requested in an earlier turn;
\* the message that triggered the search and raised the confirmation is
\* never itself taken as the confirming reply.
C26_HandlerMutatesOnlyWhenAwaited ==
  \A r \in Reqs :
    (InFlight(req[r]) /\ req[r].handlerOps # <<>>) =>
      /\ req[r].startCtx.awaitingConfirmation
      /\ ~Visited(req[r], "search_tasks")

ConfirmationConsistent(ctx) ==
  /\ ctx.awaitingConfirmation <=> ctx.operationDetails.present
  /\ ctx.operationDetails.present <=> ctx.selectedTaskId # 0
  /\ ctx.operationDetails.present =>
       /\ ctx.operationDetails.taskId = ctx.selectedTaskId
       /\ \E i \in 1..Len(ctx.foundTasks) : ctx.foundTasks[i]._id = ctx.selectedTaskId

\* C27: at the end of every stage and of every turn awaitingConfirmation is
\* true if and only if operationDetails is present, if and only if
\* selectedTaskId is present; and when they are present,
\* operationDetails.taskId equals selectedTaskId and that id belongs to a
\* task in foundTasks.
C27_ConfirmationFieldsAgree ==
  \A r \in Reqs : InFlight(req[r]) => ConfirmationConsistent(req[r].ctx)

\* A confirmation is pending after the search stage.
C27_Witness ==
  \E r \in Reqs :
    /\ JustSearched(req[r])
    /\ req[r].ctx.awaitingConfirmation /\ req[r].ctx.selectedTaskId = 4
    /\ req[r].ctx.operationDetails.action = "delete"

MatchesText(task, query) ==
  LET q == toLowerCase(query)
      title == toLowerCase(task.title)
      description == toLowerCase(task.description)
  IN \/ Contains(title, q) \/ Contains(description, q)
     \/ \E i \in LongWordStarts(q) :
          \/ Contains(title, SubSeq(q, i, WordEnd(q, i)))
          \/ Contains(description, SubSeq(q, i, WordEnd(q, i)))

\* C28: for intent update, delete or complete with a non-empty search
\* query a task is proposed for confirmation (selectedTaskId set,
\* awaitingConfirmation true) only if its title or description contains the
\* query or at least one query word longer than 2 characters; a task whose
\* only score contribution is the not-completed bonus is never the target
\* of a pending operation.
C28_ProposedTaskMatchesQuery ==
  \A r \in Reqs :
    (/\ JustSearched(req[r])
     /\ req[r].ctx.userIntent.action \in ModifyActions
     /\ trim(SearchQueryOf(req[r].ctx.userIntent)) # <<>>
     /\ req[r].ctx.awaitingConfirmation /\ req[r].ctx.selectedTaskId # 0)
    => /\ HasTask(tasks, req[r].ctx.selectedTaskId)
       /\ MatchesText(TaskById(tasks, req[r].ctx.selectedTaskId),
                      SearchQueryOf(req[r].ctx.userIntent))

\* C29: for intent create the search stage and the router agree: the search
\* stage sets awaitingConfirmation, selectedTaskId and an update-instead
\* operationDetails exactly when the router sends the turn to confirmation
\* handling, and the task it selects is a found task with score greater
\* than 80 whose status is not completed.
C29_CreateSearchAndRouterAgree ==
  \A r \in Reqs :
    (JustSearched(req[r]) /\ req[r].ctx.userIntent.action = "create") =>
      LET ctx == req[r].ctx
          proposed == /\ ctx.awaitingConfirmation /\ ctx.selectedTaskId # 0
                      /\ ctx.operationDetails.present
                      /\ ctx.operationDetails.action = "update"
      IN /\ proposed <=> req[r].pc = "handle_confirmation"
         /\ proposed =>
              \E i \in 1..Len(ctx.foundTasks) :
                /\ ctx.foundTasks[i]._id = ctx.selectedTaskId
                /\ ctx.foundTasks[i].matchScore > 80
                /\ ctx.foundTasks[i].status # "completed"

ReadOnlyTools == {"search_tasks", "list_tasks"}

ReadOnlyToolStep(r) ==
  /\ req[r].pc = "tools" /\ req[r].calls # <<>>
  /\ Head(req[r].calls).name \in ReadOnlyTools
  /\ req'[r] # req[r]

SamePending(before, after) ==
  /\ after.awaitingConfirmation = before.awaitingConfirmation
  /\ after.operationDetails = before.operationDetails
  /\ after.selectedTaskId = before.selectedTaskId
  /\ after.foundTasks = before.foundTasks
  /\ after.pendingTask = before.pendingTask

\* C30: a read-only tool call made by the model in the chat stage
\* (search_tasks or list_tasks) changes neither the task store nor the
\* pending confirmation: awaitingConfirmation, operationDetails,
\* selectedTaskId, foundTasks and pendingTask are the same after its result
\* is processed as before; only the result of a successful mutating tool
\* clears them.
C30_ReadOnlyToolKeepsPending ==
  [][\A r \in Reqs :
       /\ ReadOnlyToolStep(r) =>
            (tasks' = tasks /\ SamePending(req[r].ctx, req'[r].ctx))
       /\ (ProcessStep(r) /\ req[r].lastCall.name \in ReadOnlyTools) =>
            SamePending(req[r].ctx, req'[r].ctx)]_vars

====
